---- MODULE Spec2Model ----
(***************************************************************************)
(* A model of the three primitives of rust-atomics:                        *)
(*   src/src/arc.rs        Arc / Weak (two counters, sentinel in get_mut)  *)
(*   src/src/spin_lock.rs  SpinLock / Guard                                *)
(*   src/src/one_shot.rs   Channel / Sender / Receiver                     *)
(* Every atomic access of the source is one step of the thread making it;  *)
(* steps of different threads interleave freely and every access sees the  *)
(* latest value (one total order of all accesses).  A spurious failure of  *)
(* compare_exchange_weak returns the value the loop already holds, so it   *)
(* leaves the state unchanged and is a stuttering step.                    *)
(* The program around the Arc keeps a bounded number of handles alive:     *)
(* fewer than usize::MAX in SpecArc and SpecArcFewFair, where the counters *)
(* never reach the end of their range, and up to ManyArcs (more than       *)
(* usize::MAX) in SpecArcMany, where they do.  A run stops at undefined    *)
(* behaviour (a freed block, a value destroyed twice).                     *)
(***************************************************************************)
EXTENDS Integers, Sequences, FiniteSets, TLC

\* ------------------------------------------------------------------ bounds
\* Width of the counters (usize), scaled down.
Width == 3
\* Threads using the one shared allocation block.
NThreads == 2
\* Live strong / weak handles an operation may start towards.
MaxArcs == 5
MaxWeaks == 4
\* Threads sharing the one SpinLock, increments per thread, pushes per Guard.
NLockThreads == 2
MaxIncr == 2
MaxPush == 2
\* split calls on the one Channel.
MaxSplits == 2
\* Live strong handles in the runs that take data_ref_count to its maximum.
ManyArcs == 8
\* Live strong handles in the runs about progress: one for the thread in
\* get_mut and one for the thread in downgrade.
FewArcs == 2

usize_MAX == 2^Width - 1
Threads == 1..NThreads
LThreads == 1..NLockThreads

VARIABLES
    \* ---- arc.rs: ArcData and the handles ----
    data_ref_count,   \* ArcData.data_ref_count
    alloc_ref_count,  \* ArcData.alloc_ref_count
    num_drops,        \* how often ManuallyDrop::drop ran on ArcData.data
    num_frees,        \* how often Box::from_raw freed the block
    arcs,             \* arcs[t]: Arc handles thread t owns
    weaks,            \* weaks[t]: Weak handles thread t owns
    pc,               \* pc[t]: where thread t stands in its operation
    n,                \* n[t]: the local n of upgrade / downgrade
    is_unique,        \* is_unique[t]: the local of get_mut
    ret,              \* ret[t]: what t's last get_mut / upgrade returned
    aborted,          \* std::process::abort() was called
    scen,             \* how far the run so far follows Script (-1: not)
    arc_cap,          \* the strong handles the program of the run keeps
                      \* alive at most
    \* ---- spin_lock.rs: SpinLock and its callers ----
    locked,           \* SpinLock.locked
    value,            \* SpinLock.value (a counter, or a Vec)
    lpc,              \* lpc[t]: where thread t stands: idle, lock, held, write
    tmp,              \* tmp[t]: the value t read through its Guard
    work,             \* work[t]: the Guard scopes t still runs, each the
                      \* mutations it makes under one Guard
    repeat,           \* repeat[t]: t calls lock() again and again
    prog,             \* the program the threads run, fixed at start:
                      \* "counter": n1 threads, n2 increments each;
                      \* "vec": n1 pushes by thread 1, n2 by thread 2
    \* ---- one_shot.rs: Channel and its endpoints ----
    message,          \* Channel.message: "uninit" or the value in the slot
    ready,            \* Channel.ready
    token,            \* the park token of the receiving thread
    chan,             \* the Channel: "new", "split" or "dropped"
    spc,              \* the Sender: none, sender, wrote, stored, gone
    rpc,              \* the Receiver: none, receiver, recv, park, read, gone
    sent,             \* the message given to send ("none": not sent yet)
    got,              \* what receive returned ("none": not returned yet)
    seen,             \* what the last is_ready returned
    reads,            \* assume_init_read calls since the split
    splits,           \* split calls
    sends,            \* messages written into the slot
    delivered,        \* messages receive returned
    destroyed,        \* messages destroyed by assume_init_drop
    chan_ub           \* an uninitialized slot was read or dropped

arc_vars == <<data_ref_count, alloc_ref_count, num_drops, num_frees, arcs,
              weaks, pc, n, is_unique, ret, aborted, scen, arc_cap>>

lock_vars == <<locked, value, lpc, tmp, work, repeat, prog>>

chan_vars == <<message, ready, token, chan, spc, rpc, sent, got, seen,
               reads, splits, sends, delivered, destroyed, chan_ub>>

vars == <<arc_vars, lock_vars, chan_vars>>

\* ------------------------------------------------------------------ helpers
RECURSIVE SumTo(_, _)
SumTo(f, k) == IF k = 0 THEN 0 ELSE f[k] + SumTo(f, k - 1)

TotalArcs == SumTo(arcs, NThreads)
TotalWeaks == SumTo(weaks, NThreads)

\* Operations in flight that end by creating a handle.
UpgradesInFlight == Cardinality({t \in Threads : pc[t] = "up_loop"})
DowngradesInFlight == Cardinality({t \in Threads : pc[t] = "dg_loop"})

\* AtomicUsize::fetch_add / fetch_sub wrap around.
WrapAdd(x) == (x + 1) % (usize_MAX + 1)
WrapSub(x) == (x + usize_MAX) % (usize_MAX + 1)

\* The process has not aborted and its behaviour is defined: the block has
\* not been freed and the value not been destroyed twice.
Running == ~aborted /\ num_frees = 0 /\ num_drops <= 1

Idle(t) == Running /\ pc[t] = "idle"

\* The calls thread 1 makes, one after the other, right after Arc::new:
\* get_mut, downgrade, get_mut, drop of the Weak, get_mut.
Script == <<"get_mut", "downgrade", "get_mut", "weak_drop", "get_mut">>

\* scen after a step of operation op by thread t: the step ends the
\* operation (done) or is one of its earlier steps.
Follow(t, op, done) ==
    IF scen >= 0 /\ scen < Len(Script) /\ t = 1 /\ Script[scen + 1] = op
      THEN (IF done THEN scen + 1 ELSE scen)
      ELSE -1
At(t, l) == Running /\ pc[t] = l

\* ------------------------------------------------------------------ Arc::new
\* Arc::new, in a program that keeps at most cap strong handles alive.
ArcNew(cap) ==
    /\ arc_cap = cap
    /\ data_ref_count = 1
    /\ alloc_ref_count = 1
    /\ num_drops = 0
    /\ num_frees = 0
    /\ arcs = [t \in Threads |-> IF t = 1 THEN 1 ELSE 0]
    /\ weaks = [t \in Threads |-> 0]
    /\ pc = [t \in Threads |-> "idle"]
    /\ n = [t \in Threads |-> 0]
    /\ is_unique = [t \in Threads |-> FALSE]
    /\ ret = [t \in Threads |-> "none"]
    /\ aborted = FALSE
    /\ scen = 0

ArcInit == ArcNew(MaxArcs)

ArcInitMany == ArcNew(ManyArcs)

ArcInitFew == ArcNew(FewArcs)

\* No allocation block in use (the other primitives' specifications).
ArcOff ==
    /\ arc_cap = 0
    /\ data_ref_count = 0 /\ alloc_ref_count = 0
    /\ num_drops = 0 /\ num_frees = 0
    /\ arcs = [t \in Threads |-> 0]
    /\ weaks = [t \in Threads |-> 0]
    /\ pc = [t \in Threads |-> "off"]
    /\ n = [t \in Threads |-> 0]
    /\ is_unique = [t \in Threads |-> FALSE]
    /\ ret = [t \in Threads |-> "none"]
    /\ aborted = FALSE
    /\ scen = -1

\* ------------------------------------------------------------------ Send
\* Arc<T> and Weak<T> are Send: a handle moves from one thread to another.
SendArc(t, u) ==
    /\ t # u /\ Idle(t) /\ Idle(u) /\ arcs[t] > 0
    /\ arcs' = [arcs EXCEPT ![t] = @ - 1, ![u] = @ + 1]
    /\ UNCHANGED <<data_ref_count, alloc_ref_count, num_drops, num_frees,
                   weaks, pc, n, is_unique, ret, aborted>>
    /\ scen' = Follow(t, "send", TRUE)
    /\ UNCHANGED <<arc_cap, lock_vars, chan_vars>>

SendWeak(t, u) ==
    /\ t # u /\ Idle(t) /\ Idle(u) /\ weaks[t] > 0
    /\ weaks' = [weaks EXCEPT ![t] = @ - 1, ![u] = @ + 1]
    /\ UNCHANGED <<data_ref_count, alloc_ref_count, num_drops, num_frees,
                   arcs, pc, n, is_unique, ret, aborted>>
    /\ scen' = Follow(t, "send", TRUE)
    /\ UNCHANGED <<arc_cap, lock_vars, chan_vars>>

\* ------------------------------------------------------------------ Arc::clone
ArcClone(t) ==
    /\ Idle(t) /\ arcs[t] > 0
    /\ TotalArcs + UpgradesInFlight < arc_cap
    /\ data_ref_count' = WrapAdd(data_ref_count)
    /\ IF data_ref_count > usize_MAX \div 2
         THEN pc' = [pc EXCEPT ![t] = "abort"] /\ arcs' = arcs
         ELSE arcs' = [arcs EXCEPT ![t] = @ + 1] /\ pc' = pc
    /\ ret' = [ret EXCEPT ![t] = "none"]
    /\ UNCHANGED <<alloc_ref_count, num_drops, num_frees, weaks, n,
                   is_unique, aborted>>
    /\ scen' = Follow(t, "clone", TRUE)
    /\ UNCHANGED <<arc_cap, lock_vars, chan_vars>>

\* ------------------------------------------------------------------ Weak::clone
WeakClone(t) ==
    /\ Idle(t) /\ weaks[t] > 0
    /\ TotalWeaks + DowngradesInFlight < MaxWeaks
    /\ alloc_ref_count' = WrapAdd(alloc_ref_count)
    /\ IF alloc_ref_count > usize_MAX \div 2
         THEN pc' = [pc EXCEPT ![t] = "abort"] /\ weaks' = weaks
         ELSE weaks' = [weaks EXCEPT ![t] = @ + 1] /\ pc' = pc
    /\ ret' = [ret EXCEPT ![t] = "none"]
    /\ UNCHANGED <<data_ref_count, num_drops, num_frees, arcs, n,
                   is_unique, aborted>>
    /\ scen' = Follow(t, "weak_clone", TRUE)
    /\ UNCHANGED <<arc_cap, lock_vars, chan_vars>>

\* std::process::abort(): the process ends, no thread takes another step.
Abort(t) ==
    /\ At(t, "abort")
    /\ aborted' = TRUE
    /\ UNCHANGED <<data_ref_count, alloc_ref_count, num_drops, num_frees,
                   arcs, weaks, pc, n, is_unique, ret>>
    /\ scen' = Follow(t, "abort", TRUE)
    /\ UNCHANGED <<arc_cap, lock_vars, chan_vars>>

\* ------------------------------------------------------------------ Weak::upgrade
UpgradeLoad(t) ==
    /\ Idle(t) /\ weaks[t] > 0
    /\ TotalArcs + UpgradesInFlight < arc_cap
    /\ n' = [n EXCEPT ![t] = data_ref_count]
    /\ pc' = [pc EXCEPT ![t] = "up_loop"]
    /\ ret' = [ret EXCEPT ![t] = "none"]
    /\ UNCHANGED <<data_ref_count, alloc_ref_count, num_drops, num_frees,
                   arcs, weaks, is_unique, aborted>>
    /\ scen' = Follow(t, "upgrade", FALSE)
    /\ UNCHANGED <<arc_cap, lock_vars, chan_vars>>

\* One turn of the loop: the n == 0 test (zero: what it finds), the assert,
\* the compare-exchange (same: whether it finds data_ref_count to be n).
UpgradeLoopWith(t, zero, same) ==
    /\ At(t, "up_loop")
    /\ IF zero
         THEN /\ ret' = [ret EXCEPT ![t] = "up_None"]
              /\ pc' = [pc EXCEPT ![t] = "idle"]
              /\ UNCHANGED <<n, data_ref_count, arcs>>
         ELSE IF ~(n[t] < usize_MAX)
         THEN /\ ret' = [ret EXCEPT ![t] = "panic"]
              /\ pc' = [pc EXCEPT ![t] = "idle"]
              /\ n' = [n EXCEPT ![t] = 0]
              /\ UNCHANGED <<data_ref_count, arcs>>
         ELSE IF same
         THEN /\ data_ref_count' = n[t] + 1
              /\ arcs' = [arcs EXCEPT ![t] = @ + 1]
              /\ ret' = [ret EXCEPT ![t] = "up_Some"]
              /\ pc' = [pc EXCEPT ![t] = "idle"]
              /\ n' = [n EXCEPT ![t] = 0]
         ELSE /\ n' = [n EXCEPT ![t] = data_ref_count]
              /\ UNCHANGED <<data_ref_count, arcs, ret, pc>>
    /\ UNCHANGED <<alloc_ref_count, num_drops, num_frees, weaks, is_unique,
                   aborted>>
    /\ scen' = Follow(t, "upgrade", pc'[t] = "idle")
    /\ UNCHANGED <<arc_cap, lock_vars, chan_vars>>

\* An upgrade without the  if n == 0 { return None }  test.
UpgradeLoopNoZeroTest(t) ==
    UpgradeLoopWith(t, FALSE, data_ref_count = n[t])

\* An upgrade that stores n + 1 in place of the compare-exchange.
UpgradeLoopStore(t) == UpgradeLoopWith(t, n[t] = 0, TRUE)

UpgradeLoop(t) == UpgradeLoopWith(t, n[t] = 0, data_ref_count = n[t])

\* ------------------------------------------------------------------ Weak::drop
\* The decrement of Weak::drop, by a thread dropping a Weak of its own
\* (from "idle") or the implicit Weak of Arc::drop (from "drop_weak").
WeakDropDecWhen(t, last) ==
    /\ alloc_ref_count' = WrapSub(alloc_ref_count)
    /\ pc' = [pc EXCEPT ![t] = IF last THEN "free" ELSE "idle"]
    /\ ret' = [ret EXCEPT ![t] = "none"]
    /\ UNCHANGED <<data_ref_count, num_drops, num_frees, arcs, n, is_unique,
                   aborted>>
    /\ UNCHANGED <<arc_cap, lock_vars, chan_vars>>

\* A Weak::drop that tests the count after the decrement, not before.
WeakDropDecNewValue(t) == WeakDropDecWhen(t, WrapSub(alloc_ref_count) = 1)

\* fetch_sub(1, Release) == 1
WeakDropDec(t) == WeakDropDecWhen(t, alloc_ref_count = 1)

WeakDrop(t) ==
    /\ Idle(t) /\ weaks[t] > 0
    /\ weaks' = [weaks EXCEPT ![t] = @ - 1]
    /\ scen' = Follow(t, "weak_drop", TRUE)
    /\ WeakDropDec(t)

\* drop(Box::from_raw(ptr)); a block can be freed a second time, once.
Free(t) ==
    /\ ~aborted /\ pc[t] = "free" /\ num_frees <= 1
    /\ num_frees' = num_frees + 1
    /\ pc' = [pc EXCEPT ![t] = "idle"]
    /\ UNCHANGED <<data_ref_count, alloc_ref_count, num_drops, arcs, weaks,
                   n, is_unique, ret, aborted>>
    /\ scen' = Follow(t, "free", TRUE)
    /\ UNCHANGED <<arc_cap, lock_vars, chan_vars>>

\* ------------------------------------------------------------------ Arc::drop
ArcDropWhen(t, last) ==
    /\ Idle(t) /\ arcs[t] > 0
    /\ data_ref_count' = WrapSub(data_ref_count)
    /\ arcs' = [arcs EXCEPT ![t] = @ - 1]
    /\ pc' = [pc EXCEPT ![t] = IF last THEN "drop_data" ELSE "idle"]
    /\ ret' = [ret EXCEPT ![t] = "none"]
    /\ UNCHANGED <<alloc_ref_count, num_drops, num_frees, weaks, n,
                   is_unique, aborted>>
    /\ scen' = Follow(t, "drop", TRUE)
    /\ UNCHANGED <<arc_cap, lock_vars, chan_vars>>

\* An Arc::drop that tests the count after the decrement, not before.
ArcDropNewValue(t) == ArcDropWhen(t, WrapSub(data_ref_count) = 1)

\* An Arc::drop that gives up the implicit Weak in every drop.
ArcDropEvery(t) == ArcDropWhen(t, TRUE)

\* fetch_sub(1, Release) == 1
ArcDrop(t) == ArcDropWhen(t, data_ref_count = 1)

\* ManuallyDrop::drop(&mut *self.data().data.get())
ArcDropData(t) ==
    /\ At(t, "drop_data")
    /\ num_drops' = num_drops + 1
    /\ pc' = [pc EXCEPT ![t] = "drop_weak"]
    /\ UNCHANGED <<data_ref_count, alloc_ref_count, num_frees, arcs, weaks,
                   n, is_unique, ret, aborted>>
    /\ scen' = Follow(t, "drop", TRUE)
    /\ UNCHANGED <<arc_cap, lock_vars, chan_vars>>

\* drop(Weak { ptr: self.ptr })
ArcDropWeak(t) ==
    /\ At(t, "drop_weak")
    /\ weaks' = weaks
    /\ scen' = Follow(t, "drop", TRUE)
    /\ WeakDropDec(t)

\* ------------------------------------------------------------------ Arc::get_mut
\* compare_exchange(1, usize::MAX): the probe.
GetMutCas(t) ==
    /\ Idle(t) /\ arcs[t] > 0
    /\ IF alloc_ref_count = 1
         THEN /\ alloc_ref_count' = usize_MAX
              /\ pc' = [pc EXCEPT ![t] = "gm_load"]
              /\ ret' = [ret EXCEPT ![t] = "none"]
         ELSE /\ ret' = [ret EXCEPT ![t] = "gm_None"]
              /\ UNCHANGED <<alloc_ref_count, pc>>
    /\ UNCHANGED <<data_ref_count, num_drops, num_frees, arcs, weaks, n,
                   is_unique, aborted>>
    /\ scen' = Follow(t, "get_mut", pc'[t] = "idle")
    /\ UNCHANGED <<arc_cap, lock_vars, chan_vars>>

GetMutLoadAs(t, unique) ==
    /\ At(t, "gm_load")
    /\ is_unique' = [is_unique EXCEPT ![t] = unique]
    /\ pc' = [pc EXCEPT ![t] = "gm_store"]
    /\ UNCHANGED <<data_ref_count, alloc_ref_count, num_drops, num_frees,
                   arcs, weaks, n, ret, aborted>>
    /\ scen' = Follow(t, "get_mut", FALSE)
    /\ UNCHANGED <<arc_cap, lock_vars, chan_vars>>

\* A get_mut that takes the probe of alloc_ref_count for the whole answer.
GetMutLoadProbeOnly(t) == GetMutLoadAs(t, TRUE)

\* let is_unique = data_ref_count.load(Relaxed) == 1
GetMutLoad(t) == GetMutLoadAs(t, data_ref_count = 1)

\* The end of get_mut: alloc_ref_count is set back to 1 when restore holds,
\* then the return on is_unique.
GetMutStoreWhen(t, restore) ==
    /\ At(t, "gm_store")
    /\ alloc_ref_count' = IF restore THEN 1 ELSE alloc_ref_count
    /\ ret' = [ret EXCEPT ![t] = IF is_unique[t] THEN "gm_Some" ELSE "gm_None"]
    /\ is_unique' = [is_unique EXCEPT ![t] = FALSE]
    /\ pc' = [pc EXCEPT ![t] = "idle"]
    /\ UNCHANGED <<data_ref_count, num_drops, num_frees, arcs, weaks, n,
                   aborted>>
    /\ scen' = Follow(t, "get_mut", TRUE)
    /\ UNCHANGED <<arc_cap, lock_vars, chan_vars>>

\* A get_mut that returns None on  !is_unique  before the store.
GetMutStoreOnlyUnique(t) == GetMutStoreWhen(t, is_unique[t])

\* store(1, Release), then the return on is_unique.
GetMutStore(t) == GetMutStoreWhen(t, TRUE)

\* ------------------------------------------------------------------ Arc::downgrade
DowngradeLoad(t) ==
    /\ Idle(t) /\ arcs[t] > 0
    /\ TotalWeaks + DowngradesInFlight < MaxWeaks
    /\ n' = [n EXCEPT ![t] = alloc_ref_count]
    /\ pc' = [pc EXCEPT ![t] = "dg_loop"]
    /\ ret' = [ret EXCEPT ![t] = "none"]
    /\ UNCHANGED <<data_ref_count, alloc_ref_count, num_drops, num_frees,
                   arcs, weaks, is_unique, aborted>>
    /\ scen' = Follow(t, "downgrade", FALSE)
    /\ UNCHANGED <<arc_cap, lock_vars, chan_vars>>

\* One turn of the loop: the sentinel test (sentinel: what it finds), the
\* assert, the compare-exchange.
DowngradeLoopWith(t, sentinel) ==
    /\ At(t, "dg_loop")
    /\ IF sentinel
         THEN /\ n' = [n EXCEPT ![t] = alloc_ref_count]
              /\ UNCHANGED <<alloc_ref_count, weaks, ret, pc>>
         ELSE IF ~(n[t] < usize_MAX - 1)
         THEN /\ ret' = [ret EXCEPT ![t] = "panic"]
              /\ pc' = [pc EXCEPT ![t] = "idle"]
              /\ n' = [n EXCEPT ![t] = 0]
              /\ UNCHANGED <<alloc_ref_count, weaks>>
         ELSE IF alloc_ref_count = n[t]
         THEN /\ alloc_ref_count' = n[t] + 1
              /\ weaks' = [weaks EXCEPT ![t] = @ + 1]
              /\ pc' = [pc EXCEPT ![t] = "idle"]
              /\ n' = [n EXCEPT ![t] = 0]
              /\ ret' = ret
         ELSE /\ n' = [n EXCEPT ![t] = alloc_ref_count]
              /\ UNCHANGED <<alloc_ref_count, weaks, ret, pc>>
    /\ UNCHANGED <<data_ref_count, num_drops, num_frees, arcs, is_unique,
                   aborted>>
    /\ scen' = Follow(t, "downgrade", pc'[t] = "idle")
    /\ UNCHANGED <<arc_cap, lock_vars, chan_vars>>

\* A downgrade without the  if n == usize::MAX  test.
DowngradeLoopNoSentinel(t) == DowngradeLoopWith(t, FALSE)

DowngradeLoop(t) == DowngradeLoopWith(t, n[t] = usize_MAX)

\* ------------------------------------------------------------------ Arc spec
\* Fair scheduling: a thread inside get_mut or downgrade keeps running.
ArcFairness ==
    \A t \in Threads :
        /\ WF_vars(GetMutLoad(t))
        /\ WF_vars(GetMutStore(t))
        /\ WF_vars(DowngradeLoop(t))

ArcNext ==
    \E t \in Threads :
        \/ \E u \in Threads : SendArc(t, u)
        \/ \E u \in Threads : SendWeak(t, u)
        \/ ArcClone(t)
        \/ WeakClone(t)
        \/ Abort(t)
        \/ UpgradeLoad(t)
        \/ UpgradeLoop(t)
        \/ WeakDrop(t)
        \/ Free(t)
        \/ ArcDrop(t)
        \/ ArcDropData(t)
        \/ ArcDropWeak(t)
        \/ GetMutCas(t)
        \/ GetMutLoad(t)
        \/ GetMutStore(t)
        \/ DowngradeLoad(t)
        \/ DowngradeLoop(t)


\* ================================================================== claims: Arc
AtPc(l) == {t \in Threads : pc[t] = l}

\* C1: the wrapped value's destructor runs exactly once, in the Arc::drop
\* that takes data_ref_count from 1 to 0: never while a strong handle is
\* alive, never twice, and whatever the number of weak handles alive.
DestructorOnce ==
    /\ [](/\ num_drops <= 1
          /\ (TotalArcs > 0 => num_drops = 0)
          /\ Cardinality(AtPc("drop_data")) <= 1
          /\ (AtPc("drop_data") # {} =>
                data_ref_count = 0 /\ num_drops = 0 /\ TotalArcs = 0)
          /\ (data_ref_count = 0 /\ AtPc("drop_data") = {} => num_drops = 1))
    /\ [][/\ (num_drops' # num_drops =>
                num_drops' = num_drops + 1 /\ AtPc("drop_data") # {})
          /\ \A t \in Threads :
                pc'[t] = "drop_data" /\ pc[t] # "drop_data" =>
                    /\ data_ref_count = 1 /\ data_ref_count' = 0
                    /\ arcs'[t] = arcs[t] - 1]_vars

\* The destructor has run while weak handles are alive.
DestructorOnceWitness == num_drops = 1 /\ TotalWeaks >= 2 /\ num_frees = 0

\* Exactly one strong handle and no weak handle exist.
Unique == TotalArcs = 1 /\ TotalWeaks = 0

\* C2: get_mut returns Some if and only if, at the instant it decides
\* (the failed probe, or the load of data_ref_count inside the sentinel
\* window), exactly one strong handle and zero weak handles exist; the
\* sequence new, get_mut, downgrade, get_mut, drop of the Weak, get_mut
\* yields Some, None, Some.
GetMutIffUnique ==
    /\ [][\A t \in Threads :
            /\ (GetMutCas(t) /\ ret'[t] = "gm_None" => ~Unique)
            /\ (GetMutLoad(t) => (is_unique'[t] <=> Unique))
            /\ (GetMutStore(t) =>
                    /\ (ret'[t] = "gm_Some" <=> is_unique[t])
                    /\ (ret'[t] = "gm_None" <=> ~is_unique[t])
                    /\ (ret'[t] = "gm_Some" => Unique /\ Unique'))]_vars
    /\ [](pc[1] = "idle" =>
            /\ (scen = 1 => ret[1] = "gm_Some")
            /\ (scen = 3 => ret[1] = "gm_None")
            /\ (scen = 5 => ret[1] = "gm_Some"))

\* The sequence of the claim has run to its end.
GetMutIffUniqueWitness == scen = 5 /\ ret[1] = "gm_Some"

\* C3: once data_ref_count has reached 0 it stays 0 and no upgrade returns
\* Some any more; an upgrade returns None only when no strong handle is
\* alive, and one that returns Some adds exactly one to data_ref_count.
UpgradeAfterLastDrop ==
    [][/\ (data_ref_count = 0 =>
              /\ data_ref_count' = 0
              /\ \A t \in Threads : ret'[t] = "up_Some" => ret[t] = "up_Some")
       /\ \A t \in Threads :
              /\ (UpgradeLoop(t) /\ ret'[t] = "up_None" =>
                      TotalArcs = 0 /\ data_ref_count = 0)
              /\ (UpgradeLoop(t) /\ ret'[t] = "up_Some" =>
                      /\ TotalArcs >= 1
                      /\ data_ref_count' = data_ref_count + 1
                      /\ TotalArcs' = TotalArcs + 1)
              /\ (UpgradeLoop(t) /\ TotalArcs >= 1 /\ pc'[t] = "idle" =>
                      ret'[t] = "up_Some")]_vars

\* An upgrade returned None after the last strong handle was dropped, and
\* another returned Some before.
UpgradeAfterLastDropWitness ==
    \E t, u \in Threads :
        /\ ret[t] = "up_None" /\ weaks[t] > 0 /\ data_ref_count = 0
        /\ ret[u] = "up_Some"

\* C4: the allocation is freed exactly once, by the decrement that takes
\* alloc_ref_count from 1 to 0, after the last strong and the last weak
\* handle are gone and the value is destroyed.
FreedOnce ==
    /\ [](/\ num_frees <= 1
          /\ (num_frees = 1 \/ AtPc("free") # {} =>
                /\ TotalArcs = 0 /\ TotalWeaks = 0
                /\ num_drops = 1 /\ alloc_ref_count = 0)
          /\ Cardinality(AtPc("free")) <= 1
          /\ (AtPc("free") # {} => num_frees = 0)
          /\ (alloc_ref_count = 0 /\ AtPc("free") = {} => num_frees = 1))
    /\ [][/\ (num_frees' # num_frees =>
                num_frees' = num_frees + 1 /\ AtPc("free") # {})
          /\ \A t \in Threads :
                pc'[t] = "free" /\ pc[t] # "free" =>
                    alloc_ref_count = 1 /\ alloc_ref_count' = 0]_vars

\* The block is freed after an upgrade had returned None: a weak handle
\* outlived the value.
FreedOnceWitness ==
    /\ num_frees = 1
    /\ \E t \in Threads : ret[t] = "up_None"

CloneNeverWraps ==
    [][/\ \A t \in Threads :
             ArcClone(t) =>
                /\ data_ref_count' = WrapAdd(data_ref_count)
                /\ (pc'[t] = "abort" <=> data_ref_count > usize_MAX \div 2)
       /\ data_ref_count' \in {data_ref_count - 1, data_ref_count,
                                data_ref_count + 1}]_vars

\* The threads inside get_mut between its compare-exchange and its store.
InWindow == AtPc("gm_load") \cup AtPc("gm_store")

\* C18: while a get_mut is between its compare-exchange 1 -> usize::MAX and
\* its store of 1, alloc_ref_count holds the sentinel and only that store
\* changes it; a downgrade that reads the sentinel reads again, one whose
\* compare-exchange carries an older value fails, and no Weak handle
\* exists or is created before get_mut has decided.
SentinelWindow ==
    /\ [](/\ Cardinality(InWindow) <= 1
          /\ (InWindow # {} =>
                alloc_ref_count = usize_MAX /\ TotalWeaks = 0))
    /\ [][/\ (InWindow # {} /\ alloc_ref_count' # alloc_ref_count =>
                \E g \in InWindow : GetMutStore(g) /\ alloc_ref_count' = 1)
          /\ (InWindow # {} => TotalWeaks' = 0)
          /\ \A t \in Threads :
                /\ (DowngradeLoop(t) /\ n[t] = usize_MAX =>
                        /\ pc'[t] = "dg_loop" /\ n'[t] = alloc_ref_count
                        /\ UNCHANGED <<alloc_ref_count, weaks>>)
                /\ (DowngradeLoop(t) /\ InWindow # {} =>
                        /\ pc'[t] = "dg_loop" /\ n'[t] = usize_MAX
                        /\ UNCHANGED <<alloc_ref_count, weaks>>)
                /\ (weaks'[t] = weaks[t] + 1 /\ DowngradeLoop(t) =>
                        /\ InWindow = {}
                        /\ alloc_ref_count' = alloc_ref_count + 1)]_vars

\* A downgrade read the sentinel while a get_mut of another handle, which
\* has found its handle not unique, is about to store 1.
SentinelWindowWitness ==
    \E g, t \in Threads :
        /\ pc[g] = "gm_store" /\ ~is_unique[g]
        /\ pc[t] = "dg_loop" /\ n[t] = usize_MAX

\* get_mut leaves alloc_ref_count at 1 on both outcomes of a successful
\* probe and changes nothing when the probe fails, so the sentinel is there
\* only while a get_mut is in progress.
GetMutRestores ==
    /\ [](alloc_ref_count = usize_MAX <=> InWindow # {})
    /\ [][\A t \in Threads :
            /\ (GetMutCas(t) /\ alloc_ref_count # 1 =>
                    /\ ret'[t] = "gm_None" /\ pc'[t] = "idle"
                    /\ UNCHANGED <<alloc_ref_count, data_ref_count>>)
            /\ (GetMutStore(t) =>
                    /\ alloc_ref_count = usize_MAX /\ alloc_ref_count' = 1
                    /\ data_ref_count' = data_ref_count
                    /\ pc'[t] = "idle"
                    /\ ret'[t] \in {"gm_Some", "gm_None"})]_vars

\* A downgrade that has read the sentinel.
Spinning(t) == pc[t] = "dg_loop" /\ n[t] = usize_MAX

\* C19 as stated: get_mut restores alloc_ref_count, and every downgrade
\* that spins on the sentinel completes (in a process that does not abort).
DowngradeAlwaysCompletes ==
    /\ GetMutRestores
    /\ \A t \in Threads : Spinning(t) ~> (pc[t] = "idle" \/ aborted)

\* C19 as amended: get_mut restores alloc_ref_count, the sentinel always
\* goes away again, and a downgrade that spins on it completes when the
\* other threads stop changing alloc_ref_count.
DowngradeCompletesWhenQuiet ==
    /\ GetMutRestores
    /\ (alloc_ref_count = usize_MAX) ~> (alloc_ref_count = 1 \/ aborted)
    /\ \A t \in Threads :
          <>[][alloc_ref_count' = alloc_ref_count \/ DowngradeLoop(t)]_vars
              => (Spinning(t) ~> (pc[t] = "idle" \/ aborted))

\* A get_mut that found its handle not unique has stored 1, and the
\* downgrade that was spinning on the sentinel can go on.
DowngradeCompletesWhenQuietWitness ==
    \E g, t \in Threads :
        /\ ret[g] = "gm_None" /\ pc[g] = "idle" /\ alloc_ref_count = 1
        /\ Spinning(t)

\* C20: an upgrade that races with the drop of the last strong handle
\* never yields a handle to a destroyed value: it returns Some only by an
\* increment made while a strong handle is counted and the value is whole,
\* and after the decrement to 0 its compare-exchange fails or its load
\* reads 0 and it returns None.  No strong handle is alive once the value
\* is destroyed, and no handle once the block is freed.
UpgradeRacesLastDrop ==
    /\ [](/\ (TotalArcs > 0 =>
                /\ num_drops = 0 /\ AtPc("drop_data") = {}
                /\ data_ref_count >= TotalArcs)
          /\ (TotalArcs + TotalWeaks > 0 =>
                num_frees = 0 /\ AtPc("free") = {}))
    /\ [][\A t \in Threads :
            /\ (UpgradeLoop(t) /\ ret'[t] = "up_Some" /\ pc'[t] = "idle" =>
                    /\ data_ref_count >= 1 /\ data_ref_count = n[t]
                    /\ data_ref_count' = data_ref_count + 1
                    /\ TotalArcs >= 1 /\ num_drops' = 0
                    /\ AtPc("drop_data") = {})
            /\ (UpgradeLoop(t) /\ data_ref_count = 0 =>
                    /\ arcs' = arcs /\ data_ref_count' = 0
                    /\ IF n[t] = 0
                         THEN ret'[t] = "up_None" /\ pc'[t] = "idle"
                         ELSE n'[t] = 0 /\ pc'[t] = "up_loop")
            /\ (ArcDrop(t) /\ pc'[t] = "drop_data" =>
                    data_ref_count = 1 /\ TotalArcs' = 0)
            /\ (ArcDrop(t) /\ data_ref_count > 1 =>
                    pc'[t] = "idle" /\ num_drops' = 0)]_vars

\* The race: an upgrade has read a count of 1, then the drop of the last
\* strong handle took the count to 0 and is about to destroy the value.
UpgradeRacesLastDropWitness ==
    \E t, u \in Threads :
        /\ pc[t] = "up_loop" /\ n[t] = 1
        /\ pc[u] = "drop_data" /\ data_ref_count = 0

\* ================================================================== SpinLock
\* The mutations of one Guard scope: k times the same mutation.
Scope(op, k) == [i \in 1..k |-> op]
Inc == [kind |-> "inc", arg |-> 0]
Push(x) == [kind |-> "push", arg |-> x]

\* N threads, M increments each, a Guard per increment (the counter).
CounterWork(nthr, m) ==
    [t \in LThreads |-> IF t <= nthr THEN [i \in 1..m |-> Scope(Inc, 1)]
                                     ELSE <<>>]

\* The test with thread 2 taking the lock anew for each push.
VecWorkGuardPerPush(k1, k2) ==
    [t \in LThreads |-> IF t = 1 THEN <<Scope(Push(1), k1)>>
                        ELSE IF t = 2 THEN [i \in 1..k2 |-> Scope(Push(2), 1)]
                        ELSE <<>>]

\* spin_lock.rs tests::test: thread 1 pushes 1 (k1 times) under a Guard,
\* thread 2 pushes 2 (k2 times) under a single Guard.
VecWork(k1, k2) ==
    [t \in LThreads |-> IF t = 1 THEN <<Scope(Push(1), k1)>>
                        ELSE IF t = 2 THEN <<Scope(Push(2), k2)>>
                        ELSE <<>>]

\* A local that holds nothing read: the empty value of the program's type.
Blank == IF prog.kind = "vec" THEN <<>> ELSE 0

\* SpinLock::new(value), and the program its threads run.
LockInit ==
    /\ locked = FALSE
    /\ lpc = [t \in LThreads |-> "idle"]
    /\ \/ \E nthr \in 1..NLockThreads, m \in 1..MaxIncr, rep \in BOOLEAN :
            /\ prog = [kind |-> "counter", n1 |-> nthr, n2 |-> m]
            /\ value = 0
            \* the threads beyond nthr: absent, or locking with an empty scope
            /\ repeat = [t \in LThreads |-> rep /\ t > nthr]
            /\ work = [t \in LThreads |->
                         IF rep /\ t > nthr THEN <<Scope(Inc, 0)>>
                                            ELSE CounterWork(nthr, m)[t]]
       \/ \E k1 \in 1..MaxPush, k2 \in 1..MaxPush :
            /\ prog = [kind |-> "vec", n1 |-> k1, n2 |-> k2]
            /\ value = <<>>
            /\ repeat = [t \in LThreads |-> FALSE]
            /\ work = VecWork(k1, k2)
    /\ tmp = [t \in LThreads |-> Blank]

LockOff ==
    /\ locked = FALSE
    /\ value = 0
    /\ lpc = [t \in LThreads |-> "off"]
    /\ tmp = [t \in LThreads |-> 0]
    /\ work = [t \in LThreads |-> <<>>]
    /\ repeat = [t \in LThreads |-> FALSE]
    /\ prog = [kind |-> "off", n1 |-> 0, n2 |-> 0]

\* A thread calls lock().
LockCall(t) ==
    /\ lpc[t] = "idle" /\ work[t] # <<>>
    /\ lpc' = [lpc EXCEPT ![t] = "lock"]
    /\ UNCHANGED <<locked, value, tmp, work, repeat, prog>>
    /\ UNCHANGED <<arc_vars, chan_vars>>

\* One turn of the loop of lock(): the flag becomes new, and the loop ends
\* when the value the swap returned (old) is false.
LockSwapAs(t, old, new) ==
    /\ lpc[t] = "lock"
    /\ locked' = new
    /\ lpc' = [lpc EXCEPT ![t] = IF old THEN "lock" ELSE "held"]
    /\ UNCHANGED <<value, tmp, work, repeat, prog>>
    /\ UNCHANGED <<arc_vars, chan_vars>>

\* A lock() that stores true and does not look at the old value.
LockSwapBlind(t) == LockSwapAs(t, FALSE, TRUE)

\* A lock() that swaps false in.
LockSwapFalse(t) == LockSwapAs(t, locked, FALSE)

\* A lock() that inverts the flag (fetch_not in place of swap(true)).
LockSwapToggle(t) == LockSwapAs(t, locked, ~locked)

\* while self.locked.swap(true, Acquire) { spin_loop() }
LockSwap(t) == LockSwapAs(t, locked, TRUE)

\* What a mutation makes of the value it read.
Apply(op, v) == IF op.kind = "inc" THEN v + 1 ELSE Append(v, op.arg)

\* A mutation through the Guard (deref_mut) reads the value ...
GuardRead(t) ==
    /\ lpc[t] = "held" /\ Head(work[t]) # <<>>
    /\ tmp' = [tmp EXCEPT ![t] = value]
    /\ lpc' = [lpc EXCEPT ![t] = "write"]
    /\ UNCHANGED <<locked, value, work, repeat, prog>>
    /\ UNCHANGED <<arc_vars, chan_vars>>

\* ... and writes it back changed.
GuardWrite(t) ==
    /\ lpc[t] = "write"
    /\ value' = Apply(Head(Head(work[t])), tmp[t])
    /\ work' = [work EXCEPT ![t] = <<Tail(Head(@))>> \o Tail(@)]
    /\ tmp' = [tmp EXCEPT ![t] = Blank]
    /\ lpc' = [lpc EXCEPT ![t] = "held"]
    /\ UNCHANGED <<locked, repeat, prog>>
    /\ UNCHANGED <<arc_vars, chan_vars>>

\* The end of a Guard scope: the Guard is dropped, the flag becomes flag.
GuardDropAs(t, flag) ==
    /\ lpc[t] = "held" /\ Head(work[t]) = <<>>
    /\ locked' = flag
    /\ work' = [work EXCEPT ![t] = IF repeat[t] THEN @ ELSE Tail(@)]
    /\ lpc' = [lpc EXCEPT ![t] = "idle"]
    /\ UNCHANGED <<value, tmp, repeat, prog>>
    /\ UNCHANGED <<arc_vars, chan_vars>>

\* A Guard whose drop leaves the flag as it is.
GuardDropKeepsFlag(t) == GuardDropAs(t, locked)

\* impl Drop for Guard: self.lock.locked.store(false, Release)
GuardDrop(t) == GuardDropAs(t, FALSE)

LockNext ==
    \E t \in LThreads :
        \/ LockCall(t)
        \/ LockSwap(t)
        \/ GuardRead(t)
        \/ GuardWrite(t)
        \/ GuardDrop(t)

\* Fair scheduling: a thread inside lock() or holding a Guard keeps running.
LockFairness ==
    \A t \in LThreads :
        /\ WF_vars(LockSwap(t))
        /\ WF_vars(GuardRead(t) \/ GuardWrite(t) \/ GuardDrop(t))


\* ================================================================== claims: SpinLock
\* The threads past the swap of lock() and before the drop of their Guard.
Holders == {t \in LThreads : lpc[t] \in {"held", "write"}}

\* Thread t has run all its Guard scopes.
LockDone(t) == lpc[t] = "idle" /\ (work[t] = <<>> \/ repeat[t])

\* C5: at most one Guard of the SpinLock exists at any time.
OneGuard == Cardinality(Holders) <= 1 /\ (Holders # {} => locked)

\* A thread holds the Guard while another spins in lock().
OneGuardWitness ==
    \E t, u \in LThreads : lpc[t] = "write" /\ lpc[u] = "lock" /\ locked

\* C8: N threads, M increments each through a Guard: the counter ends at
\* N * M.
CounterFinal ==
    prog.kind = "counter" /\ (\A t \in LThreads : LockDone(t))
        => value = prog.n1 * prog.n2

\* All threads of the largest program are done.
CounterFinalWitness ==
    /\ prog.kind = "counter" /\ prog.n1 = NLockThreads /\ prog.n2 = MaxIncr
    /\ \A t \in LThreads : LockDone(t)
    /\ value = NLockThreads * MaxIncr

\* C9: the pushes made under one Guard end up contiguous and in order:
\* the Vec is thread 1's pushes then thread 2's, or the other way round
\* ([1,2,2] or [2,2,1], never [2,1,2]).
VecFinal ==
    prog.kind = "vec" /\ (\A t \in LThreads : LockDone(t))
        => \/ value = Scope(1, prog.n1) \o Scope(2, prog.n2)
           \/ value = Scope(2, prog.n2) \o Scope(1, prog.n1)

\* The test's program ends with [2, 2, 1].
VecFinalWitness ==
    /\ prog.kind = "vec" /\ (\A t \in LThreads : LockDone(t))
    /\ value = <<2, 2, 1>>

\* C10 as stated: every call of lock() eventually returns.
LockAlwaysReturns ==
    \A t \in LThreads : (lpc[t] = "lock") ~> (lpc[t] = "held")

\* C10 as amended: while a thread is in lock(), some thread eventually holds
\* a Guard, and the call returns when no other thread locks for ever.
LockReturnsUnlessOutrun ==
    /\ (\E t \in LThreads : lpc[t] = "lock") ~> (Holders # {})
    /\ \A t \in LThreads :
          (lpc[t] = "lock" /\ \A u \in LThreads \ {t} : ~repeat[u])
              ~> (lpc[t] = "held")

\* A thread spins in lock() while another, which locks a finite number of
\* times, holds the Guard.
LockReturnsUnlessOutrunWitness ==
    \E t, u \in LThreads :
        /\ lpc[t] = "lock" /\ lpc[u] = "held" /\ locked
        /\ \A v \in LThreads \ {t} : ~repeat[v]

\* C17: the locked flag is true exactly while a Guard is alive: only the
\* drop of a Guard takes the flag to false, every drop of a Guard does, and
\* only the swap of a lock() call that returns takes it to true.
LockedIffGuard ==
    /\ [](locked <=> Holders # {})
    /\ [][/\ (locked /\ ~locked' =>
                \E t \in LThreads : GuardDrop(t) /\ Holders = {t})
          /\ (\A t \in LThreads : GuardDrop(t) => ~locked' /\ Holders' = {})
          /\ (~locked /\ locked' =>
                \E t \in LThreads : LockSwap(t) /\ Holders' = {t})
          /\ (\A t \in LThreads : LockSwap(t) /\ locked => UNCHANGED vars)
         ]_vars

\* A Guard that was used for an increment is gone, the flag is false again
\* and another thread is about to swap.
LockedIffGuardWitness ==
    /\ prog.kind = "counter" /\ value = 1
    /\ ~locked /\ Holders = {}
    /\ \E t \in LThreads : lpc[t] = "lock"

\* ================================================================== Channel
Msgs == {"hello", "world"}

\* Channel::new()
ChanInit ==
    /\ message = "uninit"
    /\ ready = FALSE
    /\ token = FALSE
    /\ chan = "new"
    /\ spc = "none"
    /\ rpc = "none"
    /\ sent = "none"
    /\ got = "none"
    /\ seen = "none"
    /\ reads = 0
    /\ splits = 0
    /\ sends = 0
    /\ delivered = 0
    /\ destroyed = 0
    /\ chan_ub = FALSE

ChanOff ==
    /\ ChanInit

\* No Sender and no Receiver borrows the channel.
NoEndpoint == spc \in {"none", "gone"} /\ rpc \in {"none", "gone"}

\* The channel value is dropped: assume_init_drop runs on the slot when
\* set holds, and dropping an uninitialized slot is undefined.
DropMessageWhen(set) ==
    /\ destroyed' = IF set THEN destroyed + 1 ELSE destroyed
    /\ chan_ub' = (chan_ub \/ (set /\ message = "uninit"))

\* A drop that does not look at the ready flag.
DropMessageAlways == DropMessageWhen(TRUE)

\* impl Drop for Channel:  if *self.ready.get_mut() { assume_init_drop() }
DropMessage == DropMessageWhen(ready)

\* split makes the two endpoints; when reset holds it first assigns a new
\* channel value, which drops the old one.
SplitWith(reset) ==
    /\ chan # "dropped" /\ NoEndpoint /\ splits < MaxSplits
    /\ IF reset
         THEN DropMessage /\ message' = "uninit" /\ ready' = FALSE
         ELSE UNCHANGED <<message, ready, destroyed, chan_ub>>
    /\ chan' = "split"
    /\ spc' = "sender"
    /\ rpc' = "receiver"
    /\ sent' = "none" /\ got' = "none" /\ seen' = "none"
    /\ reads' = 0
    /\ splits' = splits + 1
    /\ UNCHANGED <<token, sends, delivered>>
    /\ UNCHANGED <<arc_vars, lock_vars>>

\* A split without  *self = Self::new().
SplitKeepsState == SplitWith(FALSE)

\* Channel::split
Split == SplitWith(TRUE)

\* The channel goes out of scope.
ChannelDrop ==
    /\ chan # "dropped" /\ NoEndpoint
    /\ DropMessage
    /\ chan' = "dropped"
    /\ UNCHANGED <<message, ready, token, spc, rpc, sent, got, seen, reads,
                   splits, sends, delivered>>
    /\ UNCHANGED <<arc_vars, lock_vars>>

\* Sender::send, (*self.channel.message.get()).write(message)
SendWrite(m) ==
    /\ spc = "sender"
    /\ message' = m
    /\ sent' = m
    /\ sends' = sends + 1
    /\ spc' = "wrote"
    /\ UNCHANGED <<ready, token, chan, rpc, got, seen, reads, splits,
                   delivered, destroyed, chan_ub>>
    /\ UNCHANGED <<arc_vars, lock_vars>>

\* self.channel.ready.store(true, Release)
SendStore ==
    /\ spc = "wrote"
    /\ ready' = TRUE
    /\ spc' = "stored"
    /\ UNCHANGED <<message, token, chan, rpc, sent, got, seen, reads, splits,
                   sends, delivered, destroyed, chan_ub>>
    /\ UNCHANGED <<arc_vars, lock_vars>>

\* The last step of send leaves the park token of the receiving thread as
\* tok; send has consumed the Sender.
SendUnparkAs(tok) ==
    /\ spc = "stored"
    /\ token' = tok
    /\ spc' = "gone"
    /\ UNCHANGED <<message, ready, chan, rpc, sent, got, seen, reads, splits,
                   sends, delivered, destroyed, chan_ub>>
    /\ UNCHANGED <<arc_vars, lock_vars>>

\* A send that does not wake the receiving thread.
SendNoUnpark == SendUnparkAs(token)

\* self.receiving_thread.unpark()
SendUnpark == SendUnparkAs(TRUE)

\* A Sender dropped without a send.
SenderDrop ==
    /\ spc = "sender"
    /\ spc' = "gone"
    /\ UNCHANGED <<message, ready, token, chan, rpc, sent, got, seen, reads,
                   splits, sends, delivered, destroyed, chan_ub>>
    /\ UNCHANGED <<arc_vars, lock_vars>>

\* is_ready returns flag.
IsReadyAs(flag) ==
    /\ rpc = "receiver"
    /\ seen' = IF flag THEN "true" ELSE "false"
    /\ UNCHANGED <<message, ready, token, chan, spc, rpc, sent, got, reads,
                   splits, sends, delivered, destroyed, chan_ub>>
    /\ UNCHANGED <<arc_vars, lock_vars>>

\* An is_ready that reports whether the Sender has been used.
IsReadySenderUsed == IsReadyAs(spc # "sender")

\* Receiver::is_ready: self.channel.ready.load(Relaxed)
IsReady == IsReadyAs(ready)

\* Receiver::receive is called.
ReceiveCall ==
    /\ rpc = "receiver"
    /\ rpc' = "recv"
    /\ UNCHANGED <<message, ready, token, chan, spc, sent, got, seen, reads,
                   splits, sends, delivered, destroyed, chan_ub>>
    /\ UNCHANGED <<arc_vars, lock_vars>>

\* The loop test of receive: the flag becomes new.
ReceiveSwapAs(new) ==
    /\ rpc = "recv"
    /\ ready' = new
    /\ rpc' = IF ready THEN "read" ELSE "park"
    /\ UNCHANGED <<message, token, chan, spc, sent, got, seen, reads, splits,
                   sends, delivered, destroyed, chan_ub>>
    /\ UNCHANGED <<arc_vars, lock_vars>>

\* A receive that loads the flag and leaves it set.
ReceiveLoadOnly == ReceiveSwapAs(ready)

\* while !self.channel.ready.swap(false, Acquire) { thread::park() }
ReceiveSwap == ReceiveSwapAs(FALSE)

\* thread::park() returns: it takes the token, or it returns spuriously;
\* receive goes on at next.
ParkThen(next) ==
    /\ rpc = "park"
    /\ \/ token /\ token' = FALSE
       \/ token' = token
    /\ rpc' = next
    /\ UNCHANGED <<message, ready, chan, spc, sent, got, seen, reads, splits,
                   sends, delivered, destroyed, chan_ub>>
    /\ UNCHANGED <<arc_vars, lock_vars>>

\* A receive that parks once and takes the wake-up for the message:
\*   if !ready.swap(false) { park() }
ParkOnce == ParkThen("read")

\* thread::park() inside the while loop: the flag is tested again.
Park == ParkThen("recv")

\* (*self.channel.message.get()).assume_init_read(); receive returns and has
\* consumed the Receiver.  Reading an uninitialized slot is undefined.
ReceiveRead ==
    /\ rpc = "read"
    /\ IF message = "uninit"
         THEN chan_ub' = TRUE /\ got' \in Msgs \cup {"garbage"}
         ELSE chan_ub' = chan_ub /\ got' = message
    /\ message' = "uninit"
    /\ reads' = reads + 1
    /\ delivered' = delivered + 1
    /\ rpc' = "gone"
    /\ UNCHANGED <<ready, token, chan, spc, sent, seen, splits, sends,
                   destroyed>>
    /\ UNCHANGED <<arc_vars, lock_vars>>

\* A Receiver dropped without a receive.
ReceiverDrop ==
    /\ rpc = "receiver"
    /\ rpc' = "gone"
    /\ UNCHANGED <<message, ready, token, chan, spc, sent, got, seen, reads,
                   splits, sends, delivered, destroyed, chan_ub>>
    /\ UNCHANGED <<arc_vars, lock_vars>>

\* Fair scheduling: a thread inside send or receive keeps running; park()
\* returns when the token is there (a spurious return may never come).
ChanFairness ==
    /\ WF_vars(SendStore)
    /\ WF_vars(SendUnpark)
    /\ WF_vars(ReceiveSwap)
    /\ WF_vars(token /\ Park)
    /\ WF_vars(ReceiveRead)

ChanNext ==
    \/ Split
    \/ ChannelDrop
    \/ \E m \in Msgs : SendWrite(m)
    \/ SendStore
    \/ SendUnpark
    \/ SenderDrop
    \/ IsReady
    \/ ReceiveCall
    \/ ReceiveSwap
    \/ Park
    \/ ReceiveRead
    \/ ReceiverDrop


\* ================================================================== claims: Channel
\* C6: for one split, receive returns exactly the message given to send;
\* the slot is read once, the ready flag is false afterwards, and the
\* message is neither delivered nor destroyed a second time.
ReceiveReturnsSent ==
    /\ ~chan_ub
    /\ reads <= 1
    /\ delivered + destroyed <= sends
    /\ (rpc = "read" => sent # "none" /\ message = sent /\ ~ready)
    /\ (got # "none" =>
            /\ rpc = "gone" /\ got = sent /\ reads = 1
            /\ ~ready /\ message = "uninit"
            /\ spc \in {"stored", "gone"})

\* receive parked before the send, was woken by it and returned.
ReceiveReturnsSentWitness ==
    /\ got = "hello" /\ sent = "hello" /\ spc = "gone" /\ ~token
    /\ chan = "dropped" /\ destroyed = 0

\* C11: receive never returns before the matching send has written the
\* message and stored ready: a return from park() leads back to the swap on
\* the flag, a swap that observes false leads to park(), and the slot is
\* read only after a swap that observed true.
ReceiveWaitsForSend ==
    /\ [](rpc = "read" =>
            spc \in {"stored", "gone"} /\ sent # "none" /\ message = sent)
    /\ [][/\ (rpc = "park" /\ rpc' # "park" => rpc' = "recv")
          /\ (rpc = "recv" /\ rpc' # "recv" =>
                IF ready THEN rpc' = "read" /\ ~ready' ELSE rpc' = "park")
          /\ (rpc' = "read" /\ rpc # "read" => rpc = "recv" /\ ready)
          /\ (reads' # reads /\ ~Split => rpc = "read")
          /\ (got' # got /\ got' # "none" =>
                rpc = "read" /\ spc \in {"stored", "gone"} /\ got' = sent)
         ]_vars

\* The receiver of a second split took the wake-up token left by the send
\* of the first one, found the flag false and parked again.
ReceiveWaitsForSendWitness ==
    /\ splits = 2 /\ sends = 1 /\ delivered = 0
    /\ spc = "sender" /\ rpc = "park" /\ ~token /\ ~ready

\* C12: no wake-up is lost: once send has been called (its write is done)
\* and receive has been called, receive returns the message, whatever the
\* order of send's steps and receive's swap and park.
SendWakesReceiver ==
    (rpc \in {"recv", "park"} /\ sent # "none") ~> (got # "none" /\ got = sent)

\* The swap of receive observed false, then send ran all its three steps:
\* the unpark came before park() was entered or while it was parked.
SendWakesReceiverWitness ==
    /\ rpc = "park" /\ spc = "gone" /\ sent # "none" /\ ready /\ token
    /\ got = "none"

\* C13: is_ready returns false when called before the send of the same
\* split has stored the ready flag, it returns true only for a slot that
\* holds the message sent, and it changes neither the flag nor the slot.
IsReadyFalseBeforeSend ==
    [][IsReady =>
          /\ (spc \in {"sender", "wrote"} \/ sent = "none" => seen' = "false")
          /\ (seen' = "true" =>
                /\ spc \in {"stored", "gone"}
                /\ message # "uninit" /\ message = sent)
          /\ seen' \in {"true", "false"}
          /\ ready' = ready /\ message' = message]_vars

\* is_ready returned false after the message was written and before the
\* flag was stored.
IsReadyFalseBeforeSendWitness ==
    seen = "false" /\ spc = "wrote" /\ message # "uninit" /\ ~ready

\* The channel is Ready: a message was sent since the split and receive
\* has not taken it.
ChanReady == sent # "none" /\ got = "none"

\* C14: when the Channel is dropped the message is destroyed if and only
\* if the channel is Ready; an Empty channel and one whose message receive
\* took destroy nothing, so every message sent is returned by receive or
\* destroyed at teardown, one of the two and once.
ChannelDropIffReady ==
    /\ [][ChannelDrop =>
            /\ (ready <=> ChanReady)
            /\ (ChanReady => destroyed' = destroyed + 1 /\ message = sent)
            /\ (~ChanReady => destroyed' = destroyed)
            /\ chan_ub' = chan_ub /\ delivered' = delivered]_vars
    /\ [](/\ ~chan_ub
          /\ delivered + destroyed <= sends
          /\ (chan = "dropped" => delivered + destroyed = sends))

\* A message was sent and not received, and the drop of the Channel
\* destroyed it.
ChannelDropIffReadyWitness ==
    /\ chan = "dropped" /\ splits = 1 /\ sends = 1
    /\ delivered = 0 /\ destroyed = 1 /\ ready

\* C15: split leaves the channel Empty whatever its state was; a message
\* of an earlier pair that was not received is destroyed once, by the
\* split, and is never what the new Receiver returns: receive returns only
\* what the new Sender sent.
SplitResets ==
    /\ [][Split =>
            /\ ~ready' /\ message' = "uninit"
            /\ sent' = "none" /\ got' = "none"
            /\ destroyed' = (IF ChanReady THEN destroyed + 1 ELSE destroyed)
            /\ (ready <=> ChanReady)
            /\ chan_ub' = chan_ub]_vars
    /\ [](/\ ~chan_ub
          /\ (rpc \in {"receiver", "recv", "park"} /\ sent = "none" =>
                ~ready /\ message = "uninit")
          /\ (rpc = "read" \/ got # "none" => sent # "none")
          /\ (got # "none" => got = sent))

\* The first pair sent a message nobody received; the second split
\* destroyed it and the new Receiver returned the new Sender's message.
SplitResetsWitness ==
    /\ splits = 2 /\ sends = 2 /\ destroyed = 1 /\ delivered = 1
    /\ got = "world" /\ sent = "world"

\* ================================================================== specifications
\* SpecArc: up to MaxArcs strong handles; SpecArcMany: up to ManyArcs;
\* SpecArcFewFair: up to FewArcs, with fair scheduling.
InitArc == ArcInit /\ LockOff /\ ChanOff

InitArcMany == ArcInitMany /\ LockOff /\ ChanOff

InitArcFew == ArcInitFew /\ LockOff /\ ChanOff

InitLock == ArcOff /\ LockInit /\ ChanOff

InitChan == ArcOff /\ LockOff /\ ChanInit

SpecArc == InitArc /\ [][ArcNext]_vars

SpecArcMany == InitArcMany /\ [][ArcNext]_vars

SpecArcFewFair == InitArcFew /\ [][ArcNext]_vars /\ ArcFairness

SpecLock == InitLock /\ [][LockNext]_vars

SpecChan == InitChan /\ [][ChanNext]_vars

SpecLockFair == SpecLock /\ LockFairness

SpecChanFair == SpecChan /\ ChanFairness

====
